---------------------------- MODULE Spec2Model ----------------------------
(***************************************************************************)
(* A model of mastodon-to-hugo: the archive-to-markdown pipeline of        *)
(* main.go (collectToots, buildThreads, writeMarkdownFiles, writeToot),    *)
(* its extractMedia and htmlToText, the page-bundle renderer of            *)
(* mastodon-to-hugo.go (renderTootsToDisk) and the tags both write.        *)
(*                                                                         *)
(* Go strings are sequences of one-character strings, so that              *)
(* strings.Contains is computed and not assumed.  A *string is a sequence  *)
(* of length at most one: <<>> is nil and <<s>> points to s.               *)
(***************************************************************************)
EXTENDS Integers, Sequences, FiniteSets, TLC

(***************************************************************************)
(* Bounds of the model.                                                    *)
(***************************************************************************)
\* records of an archive whose reply structure and timestamps vary
MaxThreadItems == 3
\* records of an archive whose audience, content and reply target vary
MaxFilterItems == 2
\* records of an archive whose attachments vary
MaxMediaItems == 2
\* entries of the outbox.json that mastodon-to-hugo.go reads
MaxOutboxItems == 2
\* files of the zip archive that extractMedia goes through
MaxZipFiles == 3
\* tags of the "tag" array of one record
MaxTags == 3
\* pieces (a character or "http://") of a content without markup
MaxPieces == 4
\* fragments (a character, a break, a paragraph or a link) of a content with
\* markup
MaxFragments == 3

(***************************************************************************)
(* Strings.                                                                *)
(***************************************************************************)
EmptyString == <<>>

\* strings.Contains(s, substr)
Contains(s, substr) ==
    \E i \in 0..(Len(s) - Len(substr)) : SubSeq(s, i + 1, i + Len(substr)) = substr

\* slices.Contains(list, v)
SliceContains(list, v) == \E i \in 1..Len(list) : list[i] = v

Nil == <<>>
Ptr(s) == <<s>>
Deref(p) == p[1]

Digit(n) == <<"0", "1", "2", "3", "4", "5", "6", "7", "8", "9">>[n + 1]

(***************************************************************************)
(* Identifiers.  An author URL is a name; the URL of the n-th post of an   *)
(* author is the author URL followed by "/" and n, as Mastodon's           *)
(* https://host/users/name/statuses/n is its author's                      *)
(* https://host/users/name followed by a path.                             *)
(***************************************************************************)
Me == <<"m">>
\* another author, whose URL has the URL of Me as a substring
Meow == <<"m", "w">>
Stranger == <<"o">>
Actors == {Me, Meow}
Authors == Actors \cup {Stranger}

PostID(author, n) == author \o <<"/", Digit(n)>>

\* the author whose post a post URL names: the part before the "/"
RECURSIVE AuthorOf(_)
AuthorOf(url) ==
    IF url = <<>> \/ Head(url) = "/" THEN <<>> ELSE <<Head(url)>> \o AuthorOf(Tail(url))

\* publicURI, https://www.w3.org/ns/activitystreams#Public
PublicURI == <<"P">>
FollowersURI == <<"F">>

(***************************************************************************)
(* Published.  The text "2024-01-<day>T<hour>:00:00<zone>", where the zone *)
(* is "Z" for off = 0 and "+0<off>:00" otherwise; day = 0 stands for a     *)
(* text that is no RFC 3339 timestamp (the empty string).                  *)
(***************************************************************************)
NoTime == [day |-> 0, hour |-> 0, off |-> 0]
LateZulu == [day |-> 1, hour |-> 22, off |-> 0]
EarlyOffset == [day |-> 2, hour |-> 1, off |-> 5]
Timestamps == {NoTime, LateZulu, EarlyOffset}

\* the zone suffix in byte order: "+" (0x2B) sorts before "Z" (0x5A)
ZoneKey(off) == IF off = 0 THEN 10 ELSE off

\* Go's < on the Published strings: byte-wise, the empty string first
StringLess(p, q) ==
    \/ p.day < q.day
    \/ p.day = q.day /\ p.hour < q.hour
    \/ p.day = q.day /\ p.hour = q.hour /\ ZoneKey(p.off) < ZoneKey(q.off)

\* time.Parse(time.RFC3339, p): err == nil
ParsesRFC3339(p) == p.day # 0
\* the instant time.Parse returns, in hours
Instant(p) == p.day * 24 + p.hour - p.off
\* t.Format("2006-01-02"): the date in the timestamp's own zone
DateKey(p) == p.day
DateKeys == {DateKey(p) : p \in Timestamps \ {NoTime}}

(***************************************************************************)
(* Archive records.                                                        *)
(***************************************************************************)
\* type Attachment: the URL, and IsImage for a MediaType that starts with
\* "image/"
Attachment(url, isImage) == [URL |-> url, IsImage |-> isImage]
\* an attachment whose file is in the archive, and one whose file is not
StoredImage == Attachment(<<"/", "a">>, TRUE)
LostVideo == Attachment(<<"/", "b">>, FALSE)
\* the media files the archive holds
ArchiveMedia == {<<"a">>}
AttachmentLists == {<<>>, <<StoredImage>>, <<LostVideo>>, <<LostVideo, StoredImage>>}

Note(id, content, inReplyTo, attachment, to, cc) ==
    [ID |-> id, Content |-> content, InReplyTo |-> inReplyTo,
     Attachment |-> attachment, To |-> to, Cc |-> cc]

\* type Activity; IsNote is whether json.Unmarshal(activity.Object, &note)
\* succeeds: it fails for the bare string of an Announce
Activity(published, actor, isNote, object) ==
    [Published |-> published, Actor |-> actor, IsNote |-> isNote, Object |-> object]

SomeContent == <<"x">>

VARIABLES
    archive,          \* Archive.OrderedItems, as parseArchive returned it
    extractedMedia,   \* the set of archive paths extractMedia extracted
    pc,               \* where main() stands
    stats,            \* *Stats
    allToots,         \* what collectToots returned
    threadsByDate,    \* what buildThreads returned
    docs,             \* the files writeMarkdownFiles wrote, by date
    \* mastodon-to-hugo.go
    entries,          \* the ActivityEntry values json.Unmarshal allocated
    OrderedItems,     \* Outbox.OrderedItems: pointers, as positions in entries
    hpc,              \* where main() and renderTootsToDisk stand
    eachItem,         \* the position in OrderedItems of the loop of renderTootsToDisk
    threadRoot,       \* threadRootActivityItem, a position in entries
    files,            \* the index.md files, by bundle directory
    copied,           \* the media files copied, as <<bundle directory, name>>
    renderErr,        \* the error renderTootsToDisk returned
    \* extractMedia
    zipFiles,         \* r.File, each file with the I/O failure it meets
    nextFile,         \* the position in r.File of the loop of extractMedia
    mediaDir,         \* the names of the files in mediaDir
    ioLog,            \* the files opened, created and copied, in order
    \* the tags of one record
    tagJSON,          \* the "tag" array of the record's JSON
    bodyTags,         \* the names writeToot writes to the "Tags:" line
    frontTags,        \* the names the frontmatter template writes to "tags:"
    tagDone,          \* which of the two has been written
    \* htmlToText
    htmlContent,      \* the Content of a record
    result,           \* htmlToText(htmlContent)
    again,            \* htmlToText(result)
    tpc               \* how often htmlToText has been applied

mainVars == <<archive, extractedMedia, pc, stats, allToots, threadsByDate, docs>>
hugoVars == <<entries, OrderedItems, hpc, eachItem, threadRoot, files, copied, renderErr>>
mediaVars == <<zipFiles, nextFile, mediaDir, ioLog>>
tagVars == <<tagJSON, bodyTags, frontTags, tagDone>>
textVars == <<htmlContent, result, again, tpc>>
auxVars == <<mediaVars, tagVars, textVars>>
vars == <<mainVars, hugoVars, auxVars>>

(***************************************************************************)
(* The archives the model is run over.                                     *)
(***************************************************************************)
\* What varies in a record of a thread archive: the timestamp, the reply
\* target, and whether the "id" is missing from the JSON.
ThreadShapes ==
    {<<p, r, FALSE>> :
        p \in Timestamps, r \in {Nil} \cup {Ptr(PostID(Me, j)) : j \in 1..MaxThreadItems}}
    \* an empty reply target, and a reply to a post that is not in the archive
    \cup {<<LateZulu, r, FALSE>> : r \in {Ptr(EmptyString), Ptr(PostID(Me, 0))}}
    \* a record without "id"
    \cup {<<LateZulu, r, TRUE>> : r \in {Nil, Ptr(EmptyString)}}

\* a public record with content, the k-th of its archive
ThreadItem(k, sh) ==
    Activity(sh[1], Me, TRUE,
             Note(IF sh[3] THEN EmptyString ELSE PostID(Me, k), SomeContent, sh[2],
                  <<>>, <<PublicURI>>, <<FollowersURI>>))

Audiences ==
    {<<<<PublicURI>>, <<FollowersURI>>>>, <<<<FollowersURI>>, <<PublicURI>>>>,
     <<<<FollowersURI>>, <<>>>>}

\* What varies in a record of a filter archive: whether the object is a note,
\* the content, the reply target and the audience.
FilterShapes ==
    {<<TRUE, c, r, a>> :
        c \in {EmptyString, SomeContent},
        r \in {Nil} \cup {Ptr(PostID(au, 1)) : au \in Authors},
        a \in Audiences}
    \cup {<<FALSE, EmptyString, Nil, <<<<>>, <<>>>>>>}

FilterItem(actor, k, sh) ==
    Activity(LateZulu, actor, sh[1],
             Note(IF sh[1] THEN PostID(actor, k) ELSE EmptyString, sh[2], sh[3],
                  <<>>, sh[4][1], sh[4][2]))

\* What varies in a record of a media archive: the reply target and the
\* attachments.
MediaShapes ==
    {<<r, atts>> : r \in {Nil, Ptr(PostID(Me, 1))}, atts \in AttachmentLists}

MediaItem(k, sh) ==
    Activity(LateZulu, Me, TRUE,
             Note(PostID(Me, k), SomeContent, sh[1], sh[2], <<PublicURI>>, <<>>))

MediaArchive(shapes) == [k \in DOMAIN shapes |-> MediaItem(k, shapes[k])]
ThreadArchive(shapes) == [k \in DOMAIN shapes |-> ThreadItem(k, shapes[k])]
FilterArchive(actor, shapes) == [k \in DOMAIN shapes |-> FilterItem(actor, k, shapes[k])]

InitArchive ==
    \/ \E n \in 1..MaxThreadItems : \E shapes \in [1..n -> ThreadShapes] :
          archive = ThreadArchive(shapes)
    \/ \E n \in 1..MaxFilterItems : \E actor \in Actors :
          \E shapes \in [1..n -> FilterShapes] :
             archive = FilterArchive(actor, shapes)
    \/ \E n \in 1..MaxMediaItems : \E shapes \in [1..n -> MediaShapes] :
          archive = MediaArchive(shapes)

\* mastodon-to-hugo.go is not run
HugoIdle ==
    /\ entries = <<>>
    /\ OrderedItems = <<>>
    /\ hpc = "not run"
    /\ eachItem = 0
    /\ threadRoot = 0
    /\ files = <<>>
    /\ copied = {}
    /\ renderErr = ""

\* extractMedia is not followed
MediaIdle ==
    /\ zipFiles = <<>>
    /\ nextFile = 0
    /\ mediaDir = {}
    /\ ioLog = <<>>

\* no record's tags are followed
TagIdle ==
    /\ tagJSON = <<>>
    /\ bodyTags = <<>>
    /\ frontTags = <<>>
    /\ tagDone = {}

\* no content is followed
TextIdle ==
    /\ htmlContent = <<>>
    /\ result = <<>>
    /\ again = <<>>
    /\ tpc = "not run"

AuxIdle == MediaIdle /\ TagIdle /\ TextIdle

ZeroStats ==
    [TotalProcessed |-> 0, TootsOutput |-> 0, PrivateSkipped |-> 0,
     RepliesToOthers |-> 0, EmptyContent |-> 0]

Init ==
    /\ InitArchive
    /\ extractedMedia = ArchiveMedia
    /\ pc = "parsed"
    /\ stats = ZeroStats
    /\ allToots = <<>>
    /\ threadsByDate = [d \in DateKeys |-> <<>>]
    /\ docs = [d \in DateKeys |-> <<>>]
    /\ HugoIdle
    /\ AuxIdle

(***************************************************************************)
(* collectToots                                                            *)
(***************************************************************************)
\* a visibility test that reads the primary audience only
IsPublicByToOnly(note) == SliceContains(note.To, PublicURI)

\* isPublic, main.go:277
IsPublic(note) == SliceContains(note.To, PublicURI) \/ SliceContains(note.Cc, PublicURI)

\* the test of main.go:284-285: a reply that is not to the actor's own post
IsReplyToOthers(note, actor) ==
    /\ note.InReplyTo # Nil
    /\ Deref(note.InReplyTo) # EmptyString
    /\ ~Contains(Deref(note.InReplyTo), actor)

\* an iteration that applies the rules in the order visibility, reply scope,
\* emptiness
CollectOneVisibilityFirst(st, k, activity) ==
    LET note == activity.Object
        counted == [st.stats EXCEPT !.TotalProcessed = @ + 1]
    IN  IF ~activity.IsNote THEN st
        ELSE IF ~(SliceContains(note.To, PublicURI) \/ SliceContains(note.Cc, PublicURI))
        THEN [st EXCEPT !.stats = [counted EXCEPT !.PrivateSkipped = @ + 1]]
        ELSE IF /\ note.InReplyTo # Nil
                /\ Deref(note.InReplyTo) # EmptyString
                /\ ~Contains(Deref(note.InReplyTo), activity.Actor)
        THEN [st EXCEPT !.stats = [counted EXCEPT !.RepliesToOthers = @ + 1]]
        ELSE IF note.Content = EmptyString
        THEN [st EXCEPT !.stats = [counted EXCEPT !.EmptyContent = @ + 1]]
        ELSE [toots |-> Append(st.toots, [Published |-> activity.Published,
                                          Object |-> note,
                                          Actor |-> activity.Actor,
                                          idx |-> k]),
              stats |-> [counted EXCEPT !.TootsOutput = @ + 1]]

\* one iteration of the loop of collectToots over the k-th activity;
\* st is [toots, stats]
CollectOne(st, k, activity) ==
    LET note == activity.Object
        counted == [st.stats EXCEPT !.TotalProcessed = @ + 1]
    IN  IF ~activity.IsNote THEN st
        ELSE IF note.Content = EmptyString
        THEN [st EXCEPT !.stats = [counted EXCEPT !.EmptyContent = @ + 1]]
        ELSE IF ~IsPublic(note)
        THEN [st EXCEPT !.stats = [counted EXCEPT !.PrivateSkipped = @ + 1]]
        ELSE IF IsReplyToOthers(note, activity.Actor)
        THEN [st EXCEPT !.stats = [counted EXCEPT !.RepliesToOthers = @ + 1]]
        ELSE [toots |-> Append(st.toots,
                               [Published |-> activity.Published, Object |-> note,
                                Actor |-> activity.Actor, idx |-> k]),
              stats |-> [counted EXCEPT !.TootsOutput = @ + 1]]

\* a loop that returns at the first object that is no Note
RECURSIVE CollectLoopUntilError(_, _, _)
CollectLoopUntilError(items, k, st) ==
    IF k > Len(items) \/ ~items[k].IsNote THEN st
    ELSE CollectLoopUntilError(items, k + 1, CollectOne(st, k, items[k]))

\* the loop of collectToots, main.go:261-297
RECURSIVE CollectLoop(_, _, _)
CollectLoop(items, k, st) ==
    IF k > Len(items) THEN st
    ELSE CollectLoop(items, k + 1, CollectOne(st, k, items[k]))

CollectToots ==
    /\ pc = "parsed"
    /\ LET r == CollectLoop(archive, 1, [toots |-> <<>>, stats |-> stats])
       IN  /\ allToots' = r.toots
           /\ stats' = r.stats
    /\ pc' = "collected"
    /\ UNCHANGED <<archive, extractedMedia, threadsByDate, docs, hugoVars, auxVars>>

(***************************************************************************)
(* buildThreads                                                            *)
(***************************************************************************)
\* sort.Slice(replies, func(i, j) { replies[i].Published < replies[j].Published }):
\* x is put behind the elements of the sorted s that are not greater than it
InsertReply(s, x) ==
    LET n == Cardinality({i \in 1..Len(s) : ~StringLess(x.Published, s[i].Published)})
    IN  SubSeq(s, 1, n) \o <<x>> \o SubSeq(s, n + 1, Len(s))

RECURSIVE SortRepliesFrom(_, _, _)
SortRepliesFrom(s, k, sorted) ==
    IF k > Len(s) THEN sorted
    ELSE SortRepliesFrom(s, k + 1, InsertReply(sorted, s[k]))

SortReplies(s) == SortRepliesFrom(s, 1, <<>>)

\* a search that collects the direct replies only
RECURSIVE DirectRepliesFrom(_, _, _, _, _)
DirectRepliesFrom(toots, parentID, k, replies, path) ==
    IF k > Len(toots) THEN [overflow |-> FALSE, replies |-> SortReplies(replies)]
    ELSE IF /\ toots[k].Object.InReplyTo # Nil
            /\ Deref(toots[k].Object.InReplyTo) = parentID
         THEN DirectRepliesFrom(toots, parentID, k + 1, replies \o <<toots[k]>>, path)
         ELSE DirectRepliesFrom(toots, parentID, k + 1, replies, path)

\* findReplies, main.go:308-320.  The closure reads nothing but allToots and
\* parentID, so a call for a parentID that is already being computed (path)
\* repeats its caller for ever: the goroutine's stack grows until the runtime
\* ends the process with "fatal error: stack overflow".  The result is
\* [overflow, replies].
RECURSIVE FindReplies(_, _, _)
RECURSIVE FindRepliesFrom(_, _, _, _, _)
FindRepliesFrom(toots, parentID, k, replies, path) ==
    IF k > Len(toots) THEN [overflow |-> FALSE, replies |-> SortReplies(replies)]
    ELSE LET candidate == toots[k] IN
         IF /\ candidate.Object.InReplyTo # Nil
            /\ Deref(candidate.Object.InReplyTo) = parentID
         THEN LET nested == FindReplies(toots, candidate.Object.ID, path \cup {parentID})
              IN  IF nested.overflow THEN nested
                  ELSE FindRepliesFrom(toots, parentID, k + 1,
                                       (replies \o <<candidate>>) \o nested.replies, path)
         ELSE FindRepliesFrom(toots, parentID, k + 1, replies, path)

FindReplies(toots, parentID, path) ==
    IF parentID \in path THEN [overflow |-> TRUE, replies |-> <<>>]
    ELSE FindRepliesFrom(toots, parentID, 1, <<>>, path)

\* isSelfReply and the test around it, main.go:328-329
IsSelfReply(toot) ==
    /\ toot.Object.InReplyTo # Nil
    /\ Deref(toot.Object.InReplyTo) # EmptyString
    /\ Contains(Deref(toot.Object.InReplyTo), toot.Actor)

\* one iteration of the loop of main.go:326-348; b is [overflow, byDate]
BuildOne(toots, b, toot) ==
    IF b.overflow \/ IsSelfReply(toot) THEN b
    ELSE LET found == FindReplies(toots, toot.Object.ID, {})
             thread == [Root |-> toot, Replies |-> found.replies]
         IN  IF found.overflow THEN [b EXCEPT !.overflow = TRUE]
             ELSE IF ~ParsesRFC3339(toot.Published) THEN b
             ELSE [b EXCEPT !.byDate[DateKey(toot.Published)] = Append(@, thread)]

RECURSIVE BuildLoop(_, _, _)
BuildLoop(toots, k, b) ==
    IF k > Len(toots) THEN b
    ELSE BuildLoop(toots, k + 1, BuildOne(toots, b, toots[k]))

\* buildThreads(allToots): [overflow, byDate]
BuildThreadsOf(toots) ==
    BuildLoop(toots, 1, [overflow |-> FALSE, byDate |-> [d \in DateKeys |-> <<>>]])

BuildThreads ==
    /\ pc = "collected"
    /\ LET b == BuildThreadsOf(allToots)
       IN  IF b.overflow
           THEN /\ pc' = "stack overflow"
                /\ UNCHANGED threadsByDate
           ELSE /\ pc' = "built"
                /\ threadsByDate' = b.byDate
    /\ UNCHANGED <<archive, extractedMedia, stats, allToots, docs, hugoVars, auxVars>>

(***************************************************************************)
(* writeToot and writeMarkdownFiles.  A file is the sequence of its lines; *)
(* a line is [kind, level, idx, ref]: level is the number of "#" the line  *)
(* starts with, idx the record the line is written for, ref the target of  *)
(* a link.                                                                 *)
(***************************************************************************)
Line(kind, level, idx, ref) == [kind |-> kind, level |-> level, idx |-> idx, ref |-> ref]

\* strings.TrimPrefix(url, "/")
TrimSlash(url) == IF url # <<>> /\ Head(url) = "/" THEN Tail(url) ELSE url

\* the line written for one attachment, main.go:381-402
AttachmentLine(toot, att, media) ==
    IF TrimSlash(att.URL) \in media
    THEN Line(IF att.IsImage THEN "image" ELSE "link", 0, toot.idx, TrimSlash(att.URL))
    ELSE Line("attachment", 0, toot.idx, att.URL)

\* headerLevel as its number of "#": "##" is 2 and "###" is 3
RootHeader == 2
ReplyHeader == 3
SourceHeader == 5

\* a writer that puts every toot under a header of the level it is given
WriteTootWithHeader(toot, headerLevel, media) ==
    <<Line("header", headerLevel, toot.idx, <<>>)>>
    \o <<Line("content", 0, toot.idx, <<>>)>>
    \o [i \in 1..Len(toot.Object.Attachment) |->
            AttachmentLine(toot, toot.Object.Attachment[i], media)]
    \o <<Line("source", SourceHeader, toot.idx, <<>>)>>

\* writeToot(f, toot, headerLevel, extractedMedia): the lines it writes
WriteToot(toot, headerLevel, media) ==
    (IF headerLevel = RootHeader
     THEN <<Line("header", headerLevel, toot.idx, <<>>)>> ELSE <<>>)
    \o <<Line("content", 0, toot.idx, <<>>)>>
    \o [i \in 1..Len(toot.Object.Attachment) |->
            AttachmentLine(toot, toot.Object.Attachment[i], media)]
    \o <<Line("source", SourceHeader, toot.idx, <<>>)>>

\* the loop over thread.Replies, main.go:487-491
RECURSIVE WriteReplies(_, _, _)
WriteReplies(replies, k, media) ==
    IF k > Len(replies) THEN <<>>
    ELSE WriteToot(replies[k], ReplyHeader, media) \o WriteReplies(replies, k + 1, media)

\* the loop over threads, main.go:483-494
RECURSIVE WriteThreads(_, _, _)
WriteThreads(threads, k, media) ==
    IF k > Len(threads) THEN <<>>
    ELSE WriteToot(threads[k].Root, RootHeader, media)
         \o WriteReplies(threads[k].Replies, 1, media)
         \o <<Line("rule", 0, threads[k].Root.idx, <<>>)>>
         \o WriteThreads(threads, k + 1, media)

\* sort.Slice(threads, func(i, j) { threads[i].Root.Published > threads[j].Root.Published })
InsertThread(s, x) ==
    LET n == Cardinality({i \in 1..Len(s) :
                              ~StringLess(s[i].Root.Published, x.Root.Published)})
    IN  SubSeq(s, 1, n) \o <<x>> \o SubSeq(s, n + 1, Len(s))

RECURSIVE SortThreadsFrom(_, _, _)
SortThreadsFrom(s, k, sorted) ==
    IF k > Len(s) THEN sorted
    ELSE SortThreadsFrom(s, k + 1, InsertThread(sorted, s[k]))

SortThreads(s) == SortThreadsFrom(s, 1, <<>>)

\* the file of one date, main.go:468-496; a date without threads is no key
\* of threadsByDate and gets no file
WriteDate(threads, media) ==
    IF threads = <<>> THEN <<>>
    ELSE <<Line("title", 1, 0, <<>>)>> \o WriteThreads(SortThreads(threads), 1, media)

WriteMarkdownFiles ==
    /\ pc = "built"
    /\ docs' = [d \in DateKeys |-> WriteDate(threadsByDate[d], extractedMedia)]
    /\ pc' = "written"
    /\ UNCHANGED <<archive, extractedMedia, stats, allToots, threadsByDate, hugoVars, auxVars>>

Next == CollectToots \/ BuildThreads \/ WriteMarkdownFiles

Spec == Init /\ [][Next]_vars

(***************************************************************************)
(* mastodon-to-hugo.go.  An ActivityEntry is [Type, Published, Object] and *)
(* its Object [ID, InReplyTo, CC, Attachments]; Outbox.OrderedItems and    *)
(* ThreadIDChain hold pointers to the entries, here positions in entries.  *)
(***************************************************************************)
\* strings.HasPrefix(s, prefix)
HasPrefix(s, prefix) == Len(prefix) <= Len(s) /\ SubSeq(s, 1, Len(prefix)) = prefix

\* the last element of strings.Split(s, "/")
LastSegment(s) ==
    LET slashes == {i \in 1..Len(s) : s[i] = "/"}
    IN  IF slashes = {} THEN s
        ELSE SubSeq(s, (CHOOSE i \in slashes : \A j \in slashes : j <= i) + 1, Len(s))

\* an attachment as ActivityObject.UnmarshalJSON leaves it, mastodon-to-hugo.go:215-218
HugoAttachment(att) == [URL |-> att.URL, BaseFilename |-> LastSegment(att.URL)]

Entry(type, published, id, inReplyTo, cc, attachments) ==
    [Type |-> type, Published |-> published,
     Object |-> [ID |-> id, InReplyTo |-> inReplyTo, CC |-> cc,
                 Attachments |-> [i \in 1..Len(attachments) |-> HugoAttachment(attachments[i])]]]

\* fmt.Sprintf("https://%s/users/%s", HOST, USER) and MY_FOLLOWERS_URL
SelfReplyToURL == Me
MyFollowersURL == FollowersURI

\* What varies in an entry of the outbox: <<Type, InReplyTo, attachments,
\* Published, CC>>.
OutboxShapes ==
    {<<"Create", r, <<>>, LateZulu, <<MyFollowersURL>>>> :
        r \in {EmptyString} \cup {PostID(Me, j) : j \in 0..MaxOutboxItems}}
    \cup {<<"Create", r, atts, LateZulu, <<MyFollowersURL>>>> :
            r \in {EmptyString, PostID(Me, 1)}, atts \in AttachmentLists}
    \cup {<<"Create", EmptyString, <<>>, NoTime, <<MyFollowersURL>>>>,
          <<"Announce", EmptyString, <<>>, LateZulu, <<MyFollowersURL>>>>,
          <<"Create", EmptyString, <<>>, LateZulu, <<PublicURI>>>>,
          <<"Create", PostID(Stranger, 1), <<>>, LateZulu, <<MyFollowersURL>>>>}

\* the k-th entry; the object of an Announce is a string and leaves ID empty
OutboxEntry(k, sh) ==
    Entry(sh[1], sh[4], IF sh[1] = "Announce" THEN EmptyString ELSE PostID(Me, k),
          sh[2], sh[5], sh[3])

\* the bundle directory of a thread root: the year and the month of its
\* Published, which are those of every timestamp here, and the last segment
\* of its ID, mastodon-to-hugo.go:393-399
BundleDirectory(entry) == LastSegment(entry.Object.ID)
BundleDirectories == {EmptyString} \cup {<<Digit(k)>> : k \in 1..MaxOutboxItems}

\* main.go is not run
MainIdle ==
    /\ archive = <<>>
    /\ extractedMedia = {}
    /\ pc = "not run"
    /\ stats = ZeroStats
    /\ allToots = <<>>
    /\ threadsByDate = [d \in DateKeys |-> <<>>]
    /\ docs = [d \in DateKeys |-> <<>>]

\* the state newOutbox leaves
HugoInit ==
    /\ MainIdle
    /\ AuxIdle
    /\ \E n \in 1..MaxOutboxItems : \E shapes \in [1..n -> OutboxShapes] :
          /\ entries = [k \in 1..n |-> OutboxEntry(k, shapes[k])]
          /\ OrderedItems = [k \in 1..n |-> k]
    /\ hpc = "loaded"
    /\ eachItem = 0
    /\ threadRoot = 0
    /\ files = [b \in BundleDirectories |-> <<>>]
    /\ copied = {}
    /\ renderErr = ""

\* outbox.ThreadIDChain[id], mastodon-to-hugo.go:319-322: the last entry of
\* the unfiltered outbox with that Object.ID, 0 when there is none
ThreadIDChain(id) ==
    LET with == {k \in 1..Len(entries) : entries[k].Object.ID = id}
    IN  IF with = {} THEN 0 ELSE CHOOSE k \in with : \A j \in with : j <= k

\* selfPublishFilter
SelfPublishFilter(entry) ==
    IF entry.Type # "Create" THEN FALSE
    ELSE IF /\ Len(entry.Object.InReplyTo) # 0
            /\ ~HasPrefix(entry.Object.InReplyTo, SelfReplyToURL)
    THEN FALSE
    ELSE IF Len(entry.Object.CC) > 1 \/ ~SliceContains(entry.Object.CC, MyFollowersURL)
    THEN FALSE
    ELSE TRUE

\* Outbox.filterToots(selfPublishFilter)
RECURSIVE FilterFrom(_, _)
FilterFrom(items, k) ==
    IF k > Len(items) THEN <<>>
    ELSE (IF SelfPublishFilter(entries[items[k]]) THEN <<items[k]>> ELSE <<>>)
         \o FilterFrom(items, k + 1)

FilterToots ==
    /\ hpc = "loaded"
    /\ OrderedItems' = FilterFrom(OrderedItems, 1)
    /\ hpc' = "loop"
    /\ UNCHANGED <<mainVars, auxVars, entries, eachItem, threadRoot, files, copied, renderErr>>

\* the next iteration of the loop of renderTootsToDisk, mastodon-to-hugo.go:367-368
NextItem ==
    /\ hpc = "loop"
    /\ eachItem < Len(OrderedItems)
    /\ eachItem' = eachItem + 1
    /\ threadRoot' = OrderedItems[eachItem + 1]
    /\ hpc' = "walk"
    /\ UNCHANGED <<mainVars, auxVars, entries, OrderedItems, files, copied, renderErr>>

\* one iteration of the walk to the thread root, mastodon-to-hugo.go:372-386
WalkStep ==
    /\ hpc = "walk"
    /\ LET replyToID == entries[threadRoot].Object.InReplyTo
           parentActivityItem == ThreadIDChain(replyToID)
       IN  IF Len(replyToID) <= 0 \/ parentActivityItem = 0
           THEN /\ hpc' = "render"
                /\ UNCHANGED <<threadRoot, renderErr>>
           ELSE IF parentActivityItem = threadRoot
           THEN /\ hpc' = "failed"
                /\ renderErr' = "Loop detected"
                /\ UNCHANGED threadRoot
           ELSE /\ threadRoot' = parentActivityItem
                /\ UNCHANGED <<hpc, renderErr>>
    /\ UNCHANGED <<mainVars, auxVars, entries, OrderedItems, eachItem, files, copied>>

\* the loop over eachItem.Object.Attachments, mastodon-to-hugo.go:450-474:
\* [err, copied]
RECURSIVE CopyAttachments(_, _, _, _)
CopyAttachments(attachments, k, directory, done) ==
    IF k > Len(attachments) THEN [err |-> "", copied |-> done]
    ELSE IF TrimSlash(attachments[k].URL) \notin ArchiveMedia
    THEN [err |-> "no such file", copied |-> done]
    ELSE CopyAttachments(attachments, k + 1, directory,
                         done \cup {<<directory, attachments[k].BaseFilename>>})

\* what is written to index.md for the item, mastodon-to-hugo.go:415-446:
\* the frontmatter when the file is new, and the toot
RenderedToot(item, file) ==
    (IF file = <<>> THEN <<[kind |-> "frontmatter", item |-> item]>> ELSE <<>>)
    \o <<[kind |-> "toot", item |-> item]>>

\* the rest of the iteration once the thread root is found,
\* mastodon-to-hugo.go:389-474
RenderToot ==
    /\ hpc = "render"
    /\ LET item == OrderedItems[eachItem]
           directory == BundleDirectory(entries[threadRoot])
           media == CopyAttachments(entries[item].Object.Attachments, 1, directory, copied)
       IN  IF ~ParsesRFC3339(entries[threadRoot].Published)
           THEN /\ hpc' = "failed"
                /\ renderErr' = "Failed to parse date"
                /\ UNCHANGED <<files, copied>>
           ELSE /\ files' = [files EXCEPT ![directory] = @ \o RenderedToot(item, @)]
                /\ copied' = media.copied
                /\ renderErr' = media.err
                /\ hpc' = IF media.err = "" THEN "loop" ELSE "failed"
    /\ UNCHANGED <<mainVars, auxVars, entries, OrderedItems, eachItem, threadRoot>>

\* the end of the loop: the statistics are logged and nil is returned
RenderDone ==
    /\ hpc = "loop"
    /\ eachItem = Len(OrderedItems)
    /\ hpc' = "done"
    /\ UNCHANGED <<mainVars, auxVars, entries, OrderedItems, eachItem, threadRoot, files, copied,
                   renderErr>>

HugoNext == FilterToots \/ NextItem \/ WalkStep \/ RenderToot \/ RenderDone

SpecHugo == HugoInit /\ [][HugoNext]_vars

\* main and renderTootsToDisk run on one goroutine that is never held up: a
\* step that can be taken is taken
SpecHugoFair == SpecHugo /\ WF_vars(HugoNext)

(***************************************************************************)
(* extractMedia, main.go:205-246.  A file of the archive is [Name, fault]: *)
(* fault is the step of its copy that fails, if any.                       *)
(***************************************************************************)
\* "media_attachments/"
MediaPrefix == <<"m", "/">>

ZipFile(name, fault) == [Name |-> name, fault |-> fault]

\* f.Open(), os.Create(destPath) and io.Copy(dst, src)
CopySteps == <<"open", "create", "copy">>
Faults == {"none"} \cup {CopySteps[i] : i \in 1..Len(CopySteps)}

\* the files an archive holds: media files that any step may fail for, a
\* media file of another directory with the base name of one of them, and
\* a file that is no media file
ZipFiles ==
    {ZipFile(MediaPrefix \o name, fault) : name \in {<<"a">>, <<"b">>}, fault \in Faults}
    \cup {ZipFile(MediaPrefix \o <<"d", "/", "a">>, "none"), ZipFile(<<"o">>, "none")}

\* the steps of the copy of file k that are run, the last of them failing
\* when there is a fault: <<[file, op, ok]>>
RECURSIVE CopyLog(_, _, _)
CopyLog(k, fault, step) ==
    IF step > Len(CopySteps) THEN <<>>
    ELSE IF CopySteps[step] = fault
    THEN <<[file |-> k, op |-> CopySteps[step], ok |-> FALSE]>>
    ELSE <<[file |-> k, op |-> CopySteps[step], ok |-> TRUE]>>
         \o CopyLog(k, fault, step + 1)

\* an iteration that copies the file also when its path is extracted
ExtractFileAgain(st, k, f) ==
    IF ~HasPrefix(f.Name, MediaPrefix) THEN st
    ELSE [extractedMedia |-> IF f.fault = "none" THEN st.extractedMedia \cup {f.Name}
                             ELSE st.extractedMedia,
          mediaDir |-> IF f.fault \in {"none", "copy"}
                       THEN st.mediaDir \cup {LastSegment(f.Name)}
                       ELSE st.mediaDir,
          ioLog |-> st.ioLog \o CopyLog(k, f.fault, 1)]

\* one iteration of the loop of extractMedia over the k-th file;
\* st is [extractedMedia, mediaDir, ioLog]
ExtractFile(st, k, f) ==
    IF ~HasPrefix(f.Name, MediaPrefix) THEN st
    ELSE IF f.Name \in st.extractedMedia THEN st
    ELSE [extractedMedia |-> IF f.fault = "none" THEN st.extractedMedia \cup {f.Name}
                             ELSE st.extractedMedia,
          mediaDir |-> IF f.fault \in {"none", "copy"}
                       THEN st.mediaDir \cup {LastSegment(f.Name)}
                       ELSE st.mediaDir,
          ioLog |-> st.ioLog \o CopyLog(k, f.fault, 1)]

\* main.go and mastodon-to-hugo.go are not followed; the archive is open
MediaInit ==
    /\ archive = <<>>
    /\ extractedMedia = {}
    /\ pc = "opened"
    /\ stats = ZeroStats
    /\ allToots = <<>>
    /\ threadsByDate = [d \in DateKeys |-> <<>>]
    /\ docs = [d \in DateKeys |-> <<>>]
    /\ HugoIdle
    /\ TagIdle
    /\ TextIdle
    /\ \E n \in 1..MaxZipFiles : zipFiles \in [1..n -> ZipFiles]
    /\ nextFile = 1
    /\ mediaDir = {}
    /\ ioLog = <<>>

ExtractNext ==
    /\ pc = "opened"
    /\ nextFile <= Len(zipFiles)
    /\ LET st == ExtractFile([extractedMedia |-> extractedMedia, mediaDir |-> mediaDir,
                              ioLog |-> ioLog], nextFile, zipFiles[nextFile])
       IN  /\ extractedMedia' = st.extractedMedia
           /\ mediaDir' = st.mediaDir
           /\ ioLog' = st.ioLog
    /\ nextFile' = nextFile + 1
    /\ UNCHANGED <<archive, pc, stats, allToots, threadsByDate, docs, hugoVars, zipFiles,
                   tagVars, textVars>>

\* return extractedMedia, nil
ExtractDone ==
    /\ pc = "opened"
    /\ nextFile > Len(zipFiles)
    /\ pc' = "extracted"
    /\ UNCHANGED <<archive, extractedMedia, stats, allToots, threadsByDate, docs, hugoVars,
                   auxVars>>

MediaNext == ExtractNext \/ ExtractDone

SpecMedia == MediaInit /\ [][MediaNext]_vars

(***************************************************************************)
(* The tags of a record: the "Tags:" line of writeToot, main.go:411-429,   *)
(* and the "tags:" of the frontmatter that mastodon-to-hugo.go renders     *)
(* from the tags ActivityObject.UnmarshalJSON leaves, lines 220-240 and 45.*)
(***************************************************************************)
\* Tag of main.go and ActivityObjectTag of mastodon-to-hugo.go
Tag(type, name) == [Type |-> type, Name |-> name]

\* the tags of an archive: hashtags, a mention and a custom emoji
Tags ==
    {Tag("Hashtag", <<"#", "a">>), Tag("Hashtag", <<"#", "b">>),
     Tag("Mention", <<"@", "c">>), Tag("Emoji", <<":", "e", ":">>)}

\* strings.Replace(s, "#", "", -1)
RECURSIVE StripHash(_)
StripHash(s) ==
    IF s = <<>> THEN <<>>
    ELSE (IF Head(s) = "#" THEN <<>> ELSE <<Head(s)>>) \o StripHash(Tail(s))

\* the tag ActivityObject.UnmarshalJSON always adds
SocialMedia == Tag("Hashtag", <<"S">>)

\* ao.Tags as ActivityObject.UnmarshalJSON leaves it
UnmarshalTags(tags) ==
    [i \in 1..Len(tags) |-> [tags[i] EXCEPT !.Name = StripHash(@)]] \o <<SocialMedia>>

\* tags: [{{ range $index, $eachTag := .Toot.Object.Tags}}...{{$eachTag.Name}}...]
FrontmatterTags(tags) == [i \in 1..Len(tags) |-> tags[i].Name]

\* hashtags of writeToot: the names of the tags of type Hashtag
RECURSIVE Hashtags(_)
Hashtags(tags) ==
    IF tags = <<>> THEN <<>>
    ELSE (IF Head(tags).Type = "Hashtag" THEN <<Head(tags).Name>> ELSE <<>>)
         \o Hashtags(Tail(tags))

\* a record's tags as the JSON holds them; nothing else is followed
TagInit ==
    /\ MainIdle
    /\ HugoIdle
    /\ MediaIdle
    /\ TextIdle
    /\ \E n \in 0..MaxTags : tagJSON \in [1..n -> Tags]
    /\ bodyTags = <<>>
    /\ frontTags = <<>>
    /\ tagDone = {}

\* writeToot writes the "Tags:" line of the record
WriteTags ==
    /\ "writeToot" \notin tagDone
    /\ bodyTags' = Hashtags(tagJSON)
    /\ tagDone' = tagDone \cup {"writeToot"}
    /\ UNCHANGED <<mainVars, hugoVars, mediaVars, textVars, tagJSON, frontTags>>

\* the record is unmarshalled by mastodon-to-hugo.go and its frontmatter is
\* rendered
RenderFrontmatter ==
    /\ "frontmatter" \notin tagDone
    /\ frontTags' = FrontmatterTags(UnmarshalTags(tagJSON))
    /\ tagDone' = tagDone \cup {"frontmatter"}
    /\ UNCHANGED <<mainVars, hugoVars, mediaVars, textVars, tagJSON, bodyTags>>

TagNext == WriteTags \/ RenderFrontmatter

SpecTags == TagInit /\ [][TagNext]_vars

(***************************************************************************)
(* htmlToText, main.go:58-154.  A content is a sequence of characters; a   *)
(* tag that the content's author wrote is one element of the sequence, the *)
(* token html.Parse reads it as.  A "<" that is a character begins a tag   *)
(* when a letter follows it, as for the tokenizer of html.Parse.           *)
(***************************************************************************)
HashtagWord == <<"h", "a", "s", "h", "t", "a", "g">>
MentionWord == <<"m", "e", "n", "t", "i", "o", "n">>
HttpPrefix == <<"h", "t", "t", "p", ":", "/", "/">>
HttpsPrefix == <<"h", "t", "t", "p", "s", ":", "/", "/">>
\* the href of the links
LinkTarget == <<"w">>

Attr(key, val) == [Key |-> key, Val |-> val]

\* the tags a content is written with: [sym, name, end, void, attr]
StartTag(sym, name, attr) ==
    [sym |-> sym, name |-> name, end |-> FALSE, void |-> FALSE, attr |-> attr]
EndTag(sym, name) == [sym |-> sym, name |-> name, end |-> TRUE, void |-> FALSE, attr |-> <<>>]
Anchor(sym, attr) == StartTag(sym, <<"a">>, attr)

Markup ==
    {StartTag("<p>", <<"p">>, <<>>), EndTag("</p>", <<"p">>),
     StartTag("<span>", <<"s", "p", "a", "n">>, <<>>), EndTag("</span>", <<"s", "p", "a", "n">>),
     [sym |-> "<br>", name |-> <<"b", "r">>, end |-> FALSE, void |-> TRUE, attr |-> <<>>],
     EndTag("</a>", <<"a">>),
     Anchor("<a>", <<>>),
     Anchor("<a href>", <<Attr("href", LinkTarget)>>),
     Anchor("<a class=hashtag>", <<Attr("class", HashtagWord)>>),
     Anchor("<a href class=hashtag>",
            <<Attr("href", LinkTarget), Attr("class", HashtagWord)>>),
     Anchor("<a href class=mention>",
            <<Attr("href", LinkTarget), Attr("class", MentionWord)>>),
     Anchor("<a class=mention>", <<Attr("class", MentionWord)>>),
     Anchor("<a href class=mention hashtag>",
            <<Attr("href", LinkTarget), Attr("class", MentionWord \o <<" ">> \o HashtagWord)>>)}

MarkupSyms == {t.sym : t \in Markup}
TagOf(sym) == CHOOSE t \in Markup : t.sym = sym

Letters ==
    {"a", "b", "c", "d", "e", "f", "g", "h", "i", "j", "k", "l", "m", "n", "o", "p", "q",
     "r", "s", "t", "u", "v", "w", "x", "y", "z"}

\* html.Node
TextNode(data) == [Type |-> "Text", Data |-> data, Attr |-> <<>>, Children |-> <<>>]
ElementNode(name, attr, children) ==
    [Type |-> "Element", Data |-> name, Attr |-> attr, Children |-> children]
DocumentNode(children) ==
    [Type |-> "Document", Data |-> <<>>, Attr |-> <<>>, Children |-> children]

\* the position of the first c in s from i on, 0 when there is none
IndexFrom(s, i, c) ==
    LET at == {j \in i..Len(s) : s[j] = c}
    IN  IF at = {} THEN 0 ELSE CHOOSE j \in at : \A k \in at : j <= k

\* the name of the tag that is written from s[i] to the ">" at s[close]: up
\* to the first blank or "/"
TagName(s, i, close) ==
    LET ends == {j \in i..close : s[j] \in {" ", "\n", "/", ">"}}
    IN  SubSeq(s, i, (CHOOSE j \in ends : \A k \in ends : j <= k) - 1)

\* a tag begins at s[i]: a tag of the markup, or a "<" that a letter follows
TagStarts(s, i) ==
    \/ s[i] \in MarkupSyms
    \/ s[i] = "<" /\ i < Len(s) /\ s[i + 1] \in Letters

\* the last position of the text that begins at s[i]: the characters up to
\* the next tag are one text node
TextEnd(s, i) ==
    LET stops == {j \in i..Len(s) : TagStarts(s, j)}
    IN  IF stops = {} THEN Len(s) ELSE (CHOOSE j \in stops : \A k \in stops : j <= k) - 1

\* the children html.Parse gives the open element from s[i] on, and where
\* the element ends: [nodes, next].  An element whose tag is written in
\* characters has no end tag here and holds the rest of the content; a tag
\* that the content ends in is dropped.
RECURSIVE ParseFrom(_, _, _)
ParseFrom(s, i, nodes) ==
    IF i > Len(s) THEN [nodes |-> nodes, next |-> i]
    ELSE IF s[i] \in MarkupSyms
    THEN LET t == TagOf(s[i]) IN
         IF t.end THEN [nodes |-> nodes, next |-> i + 1]
         ELSE IF t.void
         THEN ParseFrom(s, i + 1, Append(nodes, ElementNode(t.name, t.attr, <<>>)))
         ELSE LET inner == ParseFrom(s, i + 1, <<>>)
              IN  ParseFrom(s, inner.next,
                            Append(nodes, ElementNode(t.name, t.attr, inner.nodes)))
    ELSE IF s[i] = "<" /\ i < Len(s) /\ s[i + 1] \in Letters
    THEN LET close == IndexFrom(s, i + 1, ">") IN
         IF close = 0 THEN [nodes |-> nodes, next |-> Len(s) + 1]
         ELSE LET inner == ParseFrom(s, close + 1, <<>>)
              IN  ParseFrom(s, inner.next,
                            Append(nodes, ElementNode(TagName(s, i + 1, close), <<>>,
                                                      inner.nodes)))
    ELSE LET last == TextEnd(s, i)
         IN  ParseFrom(s, last + 1, Append(nodes, TextNode(SubSeq(s, i, last))))

\* html.Parse(strings.NewReader(htmlContent)); the html, head and body
\* elements it adds write nothing and are left out
Parse(s) == DocumentNode(ParseFrom(s, 1, <<>>).nodes)

\* the loop over n.Attr, main.go:82-94
IsHashtag(attr) ==
    \E i \in 1..Len(attr) : attr[i].Key = "class" /\ Contains(attr[i].Val, HashtagWord)
IsMention(attr) ==
    \E i \in 1..Len(attr) : attr[i].Key = "class" /\ Contains(attr[i].Val, MentionWord)
Href(attr) ==
    LET at == {i \in 1..Len(attr) : attr[i].Key = "href"}
    IN  IF at = {} THEN EmptyString ELSE attr[CHOOSE i \in at : \A j \in at : j <= i].Val

\* extractText, main.go:103-110
RECURSIVE ExtractText(_)
RECURSIVE ExtractTexts(_, _)
ExtractText(node) ==
    (IF node.Type = "Text" THEN node.Data ELSE <<>>) \o ExtractTexts(node.Children, 1)

ExtractTexts(nodes, k) ==
    IF k > Len(nodes) THEN <<>>
    ELSE ExtractText(nodes[k]) \o ExtractTexts(nodes, k + 1)

\* a traversal that tests for a mention before it tests for a hashtag
RECURSIVE TraverseMentionFirst(_)
RECURSIVE TraverseAllMentionFirst(_, _)
TraverseMentionFirst(n) ==
    IF n.Type = "Text" THEN n.Data
    ELSE IF n.Type = "Element" /\ n.Data = <<"a">> /\ IsMention(n.Attr)
    THEN IF ExtractText(n) # EmptyString /\ Href(n.Attr) # EmptyString
         THEN <<"[">> \o ExtractText(n) \o <<"]", "(">> \o Href(n.Attr) \o <<")">>
         ELSE <<>>
    ELSE IF n.Type = "Element" /\ n.Data = <<"a">> /\ IsHashtag(n.Attr)
    THEN <<>>
    ELSE IF n.Type = "Element" /\ n.Data = <<"a">> /\ Href(n.Attr) # EmptyString
    THEN <<"<">> \o Href(n.Attr) \o <<">">>
    ELSE (IF n.Type = "Element" /\ n.Data \in {<<"b", "r">>, <<"p">>} THEN <<"\n">> ELSE <<>>)
         \o TraverseAllMentionFirst(n.Children, 1)

TraverseAllMentionFirst(nodes, k) ==
    IF k > Len(nodes) THEN <<>>
    ELSE TraverseMentionFirst(nodes[k]) \o TraverseAllMentionFirst(nodes, k + 1)

\* traverse(n, false), main.go:66-135: what it writes to text
RECURSIVE Traverse(_)
RECURSIVE TraverseAll(_, _)
Traverse(n) ==
    IF n.Type = "Text" THEN n.Data
    ELSE IF n.Type = "Element" /\ n.Data = <<"a">> /\ IsHashtag(n.Attr)
    THEN <<>>
    ELSE IF n.Type = "Element" /\ n.Data = <<"a">> /\ IsMention(n.Attr)
    THEN IF ExtractText(n) # EmptyString /\ Href(n.Attr) # EmptyString
         THEN <<"[">> \o ExtractText(n) \o <<"]", "(">> \o Href(n.Attr) \o <<")">>
         ELSE <<>>
    ELSE IF n.Type = "Element" /\ n.Data = <<"a">> /\ Href(n.Attr) # EmptyString
    THEN <<"<">> \o Href(n.Attr) \o <<">">>
    ELSE (IF n.Type = "Element" /\ n.Data \in {<<"b", "r">>, <<"p">>} THEN <<"\n">> ELSE <<>>)
         \o TraverseAll(n.Children, 1)

\* the loop over the children, main.go:132-134
TraverseAll(nodes, k) ==
    IF k > Len(nodes) THEN <<>>
    ELSE Traverse(nodes[k]) \o TraverseAll(nodes, k + 1)

\* the white space of the contents
Space == {" ", "\n"}

\* strings.TrimSpace(s)
TrimSpace(s) ==
    LET ink == {i \in 1..Len(s) : s[i] \notin Space}
    IN  IF ink = {} THEN <<>>
        ELSE SubSeq(s, CHOOSE i \in ink : \A j \in ink : i <= j,
                       CHOOSE i \in ink : \A j \in ink : j <= i)

\* strings.Split(s, "\n")
RECURSIVE Split(_)
Split(s) ==
    LET at == IndexFrom(s, 1, "\n")
    IN  IF at = 0 THEN <<s>>
        ELSE <<SubSeq(s, 1, at - 1)>> \o Split(SubSeq(s, at + 1, Len(s)))

\* strings.Join(lines, "\n\n")
RECURSIVE Join(_)
Join(lines) ==
    IF lines = <<>> THEN <<>>
    ELSE IF Len(lines) = 1 THEN lines[1]
    ELSE lines[1] \o <<"\n", "\n">> \o Join(Tail(lines))

\* a cleaning that puts every line in angle brackets
WrapEveryLine(line) == <<"<">> \o line \o <<">">>

\* main.go:147-149: a line that begins with a URL is put in angle brackets
WrapBareURL(line) ==
    IF HasPrefix(line, HttpPrefix) \/ HasPrefix(line, HttpsPrefix)
    THEN <<"<">> \o line \o <<">">>
    ELSE line

\* the loop over the lines, main.go:143-152
RECURSIVE Cleaned(_)
Cleaned(lines) ==
    IF lines = <<>> THEN <<>>
    ELSE (IF TrimSpace(Head(lines)) # EmptyString
          THEN <<WrapBareURL(TrimSpace(Head(lines)))>> ELSE <<>>)
         \o Cleaned(Tail(lines))

HtmlToText(content) == Join(Cleaned(Split(TrimSpace(Traverse(Parse(content))))))

\* the concatenation of the strings of a sequence
RECURSIVE Flatten(_)
Flatten(strs) == IF strs = <<>> THEN <<>> ELSE Head(strs) \o Flatten(Tail(strs))

\* what a content without markup is put together from
PlainPieces == {<<"x">>, <<" ">>, <<"\n">>, HttpPrefix, HttpsPrefix}

\* what is written in a link: a text, or a text and an element in an element
LinkTexts == {<<"y">>, <<"#", "<span>", "<span>", "y", "</span>", "</span>">>}

Anchors == {t.sym : t \in {u \in Markup : u.name = <<"a">> /\ ~u.end}}

\* what a content with markup is put together from
Fragments ==
    {<<"x">>, <<" ">>, <<"<br>">>, <<"<p>", "x", "</p>">>}
    \cup {<<a>> \o inner \o <<"</a>">> : a \in Anchors, inner \in LinkTexts}

\* the Content of a record; nothing else is followed
TextInit ==
    /\ MainIdle
    /\ HugoIdle
    /\ MediaIdle
    /\ TagIdle
    /\ \/ \E n \in 0..MaxPieces : \E pieces \in [1..n -> PlainPieces] :
             htmlContent = Flatten(pieces)
       \/ \E n \in 1..MaxFragments : \E fragments \in [1..n -> Fragments] :
             htmlContent = Flatten(fragments)
    /\ result = <<>>
    /\ again = <<>>
    /\ tpc = "content"

\* content := htmlToText(toot.Object.Content), main.go:356
Convert ==
    /\ tpc = "content"
    /\ result' = HtmlToText(htmlContent)
    /\ tpc' = "text"
    /\ UNCHANGED <<mainVars, hugoVars, mediaVars, tagVars, htmlContent, again>>

\* htmlToText is applied to the text it returned
ConvertAgain ==
    /\ tpc = "text"
    /\ again' = HtmlToText(result)
    /\ tpc' = "again"
    /\ UNCHANGED <<mainVars, hugoVars, mediaVars, tagVars, htmlContent, result>>

TextNext == Convert \/ ConvertAgain

SpecText == TextInit /\ [][TextNext]_vars

(***************************************************************************)
(* What the properties speak of.                                           *)
(***************************************************************************)
Collected == pc # "parsed"
Built == pc \in {"built", "written"}

\* the archive positions of the records collectToots kept
KeptIdx == {allToots[i].idx : i \in 1..Len(allToots)}

\* the threads of the result, as <<date, position>>
ThreadKeys == UNION {{<<d, i>> : i \in 1..Len(threadsByDate[d])} : d \in DateKeys}
ThreadAt(t) == threadsByDate[t[1]][t[2]]

\* how often the record of archive position x is in the list s
Occurrences(s, x) == Cardinality({k \in 1..Len(s) : s[k].idx = x})

\* no reply target: absent or empty
HasNoTarget(note) == note.InReplyTo = Nil \/ Deref(note.InReplyTo) = EmptyString

\* the kept records the reply target of the i-th kept record names
ParentsOf(i) ==
    {j \in 1..Len(allToots) :
        /\ allToots[i].Object.InReplyTo # Nil
        /\ Deref(allToots[i].Object.InReplyTo) = allToots[j].Object.ID}

RECURSIVE ParentClosure(_, _)
ParentClosure(S, n) ==
    IF n = 0 THEN S ELSE ParentClosure(S \cup UNION {ParentsOf(j) : j \in S}, n - 1)

\* the kept records a chain of reply targets leads to from the i-th one
AncestorsOf(i) == ParentClosure(ParentsOf(i), Len(allToots))

\* some chain of reply targets cycles back to where it started
HasReplyCycle == \E i \in 1..Len(allToots) : i \in AncestorsOf(i)

UniqueIDs ==
    \A i, j \in 1..Len(allToots) :
        allToots[i].Object.ID = allToots[j].Object.ID => i = j

\* the chain of reply targets of the i-th kept record leads to the identifier id
LeadsToID(i, id) ==
    \E j \in {i} \cup AncestorsOf(i) :
        /\ allToots[j].Object.InReplyTo # Nil
        /\ Deref(allToots[j].Object.InReplyTo) = id

(***************************************************************************)
(* C1: thread assembly over kept records with a cycle of reply targets     *)
(* ends by reporting a fatal loop error.  buildThreads has no such ending: *)
(* it returns without the records of the cycle, or overflows the stack.    *)
(***************************************************************************)
C1_CycleEndsInLoopError ==
    (pc \notin {"parsed", "collected"} /\ HasReplyCycle) => pc = "loop error"

(***************************************************************************)
(* C2: every kept record without reply target (absent or empty) is the     *)
(* root of a thread of the result and is in no reply list.                 *)
(***************************************************************************)
C2_NoTargetIsRootNeverReply ==
    Built =>
        \A i \in 1..Len(allToots) :
            HasNoTarget(allToots[i].Object) =>
                /\ \E t \in ThreadKeys : ThreadAt(t).Root.idx = allToots[i].idx
                /\ \A t \in ThreadKeys : Occurrences(ThreadAt(t).Replies, allToots[i].idx) = 0

(***************************************************************************)
(* C3: no record is in more than one thread, root and replies counted,     *)
(* and none is twice in its thread.                                        *)
(***************************************************************************)
TimesInThread(t, x) ==
    (IF ThreadAt(t).Root.idx = x THEN 1 ELSE 0) + Occurrences(ThreadAt(t).Replies, x)

C3_NoRecordInTwoThreads ==
    Built =>
        \A x \in KeptIdx :
            /\ \A t \in ThreadKeys : TimesInThread(t, x) <= 1
            /\ \A t, u \in ThreadKeys :
                   (TimesInThread(t, x) > 0 /\ TimesInThread(u, x) > 0) => t = u

(***************************************************************************)
(* C4: the replies of a thread are in the order of their publish times:    *)
(* of two consecutive replies whose Published parse, the first is not the  *)
(* later one.                                                              *)
(***************************************************************************)
C4_RepliesAscendInTime ==
    Built =>
        \A t \in ThreadKeys :
            \A k \in 1..(Len(ThreadAt(t).Replies) - 1) :
                LET a == ThreadAt(t).Replies[k].Published
                    b == ThreadAt(t).Replies[k + 1].Published
                IN  (ParsesRFC3339(a) /\ ParsesRFC3339(b)) => Instant(a) <= Instant(b)

(***************************************************************************)
(* C5: with unique identifiers and no reply cycle, the replies of the      *)
(* thread rooted at R are exactly the kept records whose chain of reply    *)
(* targets leads to the identifier of R, each of them once.                *)
(***************************************************************************)
C5_RepliesAreTheDescendants ==
    (Built /\ UniqueIDs /\ ~HasReplyCycle) =>
        \A t \in ThreadKeys :
            /\ \A i \in 1..Len(allToots) :
                   Occurrences(ThreadAt(t).Replies, allToots[i].idx) =
                       IF LeadsToID(i, ThreadAt(t).Root.Object.ID) THEN 1 ELSE 0
            /\ \A k \in 1..Len(ThreadAt(t).Replies) : ThreadAt(t).Replies[k].idx \in KeptIdx

\* a thread with a reply and a reply to that reply
C5_Witness_NestedReplies ==
    /\ Built /\ UniqueIDs /\ ~HasReplyCycle
    /\ \E t \in ThreadKeys :
           /\ Len(ThreadAt(t).Replies) >= 2
           /\ \E k \in 1..Len(ThreadAt(t).Replies) :
                  Deref(ThreadAt(t).Replies[k].Object.InReplyTo) # ThreadAt(t).Root.Object.ID


(***************************************************************************)
(* C6: a record that names the public audience neither in to nor in cc is  *)
(* excluded; one that names it in either is kept when it has content and   *)
(* is no reply to another author.                                          *)
(***************************************************************************)
NotesOf == {k \in 1..Len(archive) : archive[k].IsNote}

AddressesPublic(note) ==
    PublicURI \in {note.To[i] : i \in 1..Len(note.To)} \cup {note.Cc[i] : i \in 1..Len(note.Cc)}

\* no reply, or a reply to a post of the record's own author
RootOrOwnReply(activity) ==
    \/ HasNoTarget(activity.Object)
    \/ AuthorOf(Deref(activity.Object.InReplyTo)) = activity.Actor

C6_VisibilityFilter ==
    Collected =>
        \A k \in NotesOf :
            /\ ~AddressesPublic(archive[k].Object) => k \notin KeptIdx
            /\ ( /\ AddressesPublic(archive[k].Object)
                 /\ archive[k].Object.Content # EmptyString
                 /\ RootOrOwnReply(archive[k]) ) => k \in KeptIdx

\* a record public by cc alone was kept and one addressed to followers was not
C6_Witness_PublicByCcKept ==
    /\ Collected
    /\ \E k \in NotesOf :
           /\ k \in KeptIdx
           /\ archive[k].Object.To = <<FollowersURI>>
           /\ archive[k].Object.Cc = <<PublicURI>>
    /\ \E k \in NotesOf :
           /\ k \notin KeptIdx
           /\ archive[k].Object.Content # EmptyString
           /\ ~AddressesPublic(archive[k].Object)

(***************************************************************************)
(* C7: the counters of the excluded records.                               *)
(***************************************************************************)
IsEmpty(k) == archive[k].Object.Content = EmptyString
IsPrivate(k) == ~AddressesPublic(archive[k].Object)
\* the reply target is not empty and does not contain the actor's URL
TargetLacksActor(k) ==
    /\ ~HasNoTarget(archive[k].Object)
    /\ ~Contains(Deref(archive[k].Object.InReplyTo), archive[k].Actor)

\* the lines written for the record of archive position k
LinesOf(k) ==
    UNION {{<<d, n>> : n \in {m \in 1..Len(docs[d]) : docs[d][m].idx = k}} : d \in DateKeys}

\* C7 as claimed: the rules are applied in the order visibility, reply scope,
\* emptiness, and an excluded record is counted under the first it fails
C7_VisibilityRuleFirst ==
    Collected =>
        /\ stats.PrivateSkipped = Cardinality({k \in NotesOf : IsPrivate(k)})
        /\ stats.RepliesToOthers =
               Cardinality({k \in NotesOf : ~IsPrivate(k) /\ TargetLacksActor(k)})
        /\ stats.EmptyContent =
               Cardinality({k \in NotesOf :
                                ~IsPrivate(k) /\ ~TargetLacksActor(k) /\ IsEmpty(k)})

\* C7 as amended: the order is emptiness, visibility, reply scope; every
\* excluded record is counted once, under the first rule it fails in that
\* order, and no line is written for it
C7_EmptinessRuleFirst ==
    Collected =>
        /\ stats.TotalProcessed = Cardinality(NotesOf)
        /\ stats.EmptyContent = Cardinality({k \in NotesOf : IsEmpty(k)})
        /\ stats.PrivateSkipped = Cardinality({k \in NotesOf : ~IsEmpty(k) /\ IsPrivate(k)})
        /\ stats.RepliesToOthers =
               Cardinality({k \in NotesOf :
                                ~IsEmpty(k) /\ ~IsPrivate(k) /\ TargetLacksActor(k)})
        /\ stats.TootsOutput = Len(allToots)
        /\ stats.TotalProcessed =
               stats.TootsOutput + stats.EmptyContent + stats.PrivateSkipped
                   + stats.RepliesToOthers
        /\ \A k \in 1..Len(archive) :
               (~archive[k].IsNote \/ IsEmpty(k) \/ IsPrivate(k) \/ TargetLacksActor(k)) =>
                   (k \notin KeptIdx /\ LinesOf(k) = {})

\* a record with neither content nor the public audience went through the
\* whole run and was counted as empty, not as private
C7_Witness_EmptyPrivateRecord ==
    /\ pc = "written"
    /\ \E k \in NotesOf : IsEmpty(k) /\ IsPrivate(k)
    /\ stats.EmptyContent = 1
    /\ stats.PrivateSkipped = 0

(***************************************************************************)
(* C8: a kept record with a reply target replies to a post of its own      *)
(* author; a reply to the post of another author is excluded and counted   *)
(* as a reply to others.                                                   *)
(***************************************************************************)
C8_OnlyOwnRepliesKept ==
    Collected =>
        /\ \A i \in 1..Len(allToots) :
               ~HasNoTarget(allToots[i].Object) =>
                   AuthorOf(Deref(allToots[i].Object.InReplyTo)) = allToots[i].Actor
        /\ stats.RepliesToOthers =
               Cardinality({k \in NotesOf :
                                ~IsEmpty(k) /\ ~IsPrivate(k) /\ ~RootOrOwnReply(archive[k])})

(***************************************************************************)
(* C9: an archive of one public root with content and one public           *)
(* self-reply to it.                                                       *)
(***************************************************************************)
\* archive position r holds the root and position s the self-reply to it
RootAndSelfReply(r, s) ==
    /\ Len(archive) = 2 /\ {r, s} = {1, 2}
    /\ \A k \in {r, s} : archive[k].IsNote /\ ~IsEmpty(k) /\ ~IsPrivate(k)
    /\ archive[r].Object.InReplyTo = Nil
    /\ archive[r].Object.ID # EmptyString
    /\ archive[s].Object.InReplyTo = Ptr(archive[r].Object.ID)
    /\ AuthorOf(archive[r].Object.ID) = archive[s].Actor

WrittenDates == {d \in DateKeys : docs[d] # <<>>}

\* the lines of a file that are of one of the kinds
RECURSIVE LinesOfKinds(_, _)
LinesOfKinds(lines, kinds) ==
    IF lines = <<>> THEN <<>>
    ELSE (IF Head(lines).kind \in kinds THEN <<Head(lines)>> ELSE <<>>)
         \o LinesOfKinds(Tail(lines), kinds)

Counts(processed, output, omitted) ==
    /\ stats.TotalProcessed = processed
    /\ stats.TootsOutput = output
    /\ stats.PrivateSkipped + stats.RepliesToOthers + stats.EmptyContent = omitted

\* C9 as claimed, for a root whose Published parses: one document, the root
\* under a header, then the reply under a header of a lower level (more "#")
\* than the root's
C9_ReplyUnderLowerHeader ==
    \A r, s \in {1, 2} :
        (pc = "written" /\ RootAndSelfReply(r, s) /\ ParsesRFC3339(archive[r].Published)) =>
            /\ Counts(2, 2, 0)
            /\ Cardinality(WrittenDates) = 1
            /\ \A d \in WrittenDates :
                   \E a, b \in 1..Len(docs[d]) :
                       /\ a < b
                       /\ docs[d][a].kind = "header" /\ docs[d][a].idx = r
                       /\ docs[d][b].kind = "header" /\ docs[d][b].idx = s
                       /\ docs[d][b].level > docs[d][a].level

RepliesIn(d) ==
    UNION {{<<i, k>> : k \in 1..Len(threadsByDate[d][i].Replies)} :
               i \in 1..Len(threadsByDate[d])}

\* C9 as amended: only a thread root is written under a header, of level 2;
\* a reply is written without one.  For the archive of a root and a
\* self-reply the counters are 2 processed, 2 output and 0 omitted, and
\* there is one document, the root's header and content and then the
\* reply's content, when the root's Published parses, and none when not.
C9_OnlyRootsGetHeader ==
    pc = "written" =>
        /\ \A d \in DateKeys :
               LET headers == LinesOfKinds(docs[d], {"header"})
                   contents == LinesOfKinds(docs[d], {"content"})
               IN  /\ Len(headers) = Len(threadsByDate[d])
                   /\ \A n \in 1..Len(headers) : headers[n].level = RootHeader
                   /\ Len(contents) = Len(threadsByDate[d]) + Cardinality(RepliesIn(d))
        /\ \A r, s \in {1, 2} :
               RootAndSelfReply(r, s) =>
                   /\ Counts(2, 2, 0)
                   /\ IF ParsesRFC3339(archive[r].Published)
                      THEN /\ WrittenDates = {DateKey(archive[r].Published)}
                           /\ LinesOfKinds(docs[DateKey(archive[r].Published)],
                                           {"header", "content"})
                                  = <<Line("header", RootHeader, r, <<>>),
                                      Line("content", 0, r, <<>>),
                                      Line("content", 0, s, <<>>)>>
                      ELSE WrittenDates = {}

\* the document of a root and its self-reply was written
C9_Witness_RootAndReplyWritten ==
    /\ pc = "written"
    /\ \E r, s \in {1, 2} : RootAndSelfReply(r, s) /\ ParsesRFC3339(archive[r].Published)
    /\ Cardinality(WrittenDates) = 1

(***************************************************************************)
(* C10: an attachment whose source file is missing does not abort the      *)
(* rendering; the remaining attachments and records are still rendered.    *)
(***************************************************************************)
\* an attachment of the item whose source file the archive does not hold
HasLostAttachment(item) ==
    \E i \in 1..Len(entries[item].Object.Attachments) :
        TrimSlash(entries[item].Object.Attachments[i].URL) \notin ArchiveMedia

\* the toot of the item is in some index.md
IsRendered(item) ==
    \E b \in BundleDirectories : \E n \in 1..Len(files[b]) :
        files[b][n].kind = "toot" /\ files[b][n].item = item

\* C10 for renderTootsToDisk: when an item with a lost attachment has been
\* reached, the run does not end with the error of opening it, and at the end
\* every item of the filtered outbox is rendered and every attachment whose
\* source exists is copied
C10_LostAttachmentDoesNotAbort ==
    \A n \in 1..Len(OrderedItems) :
        (hpc \in {"done", "failed"} /\ n <= eachItem /\ HasLostAttachment(OrderedItems[n])) =>
            /\ renderErr # "no such file"
            /\ hpc = "done" => \A m \in 1..Len(OrderedItems) : IsRendered(OrderedItems[m])

\* C10 for writeToot: every attachment of a written record has its line, a
\* link to the original URL when its file was not extracted
WriteTootLinksLostAttachment ==
    pc = "written" =>
        \A t \in ThreadKeys :
            LET toot == ThreadAt(t).Root
            IN  \A i \in 1..Len(toot.Object.Attachment) :
                    LET att == toot.Object.Attachment[i]
                    IN  TrimSlash(att.URL) \notin extractedMedia =>
                            \E n \in 1..Len(docs[t[1]]) :
                                docs[t[1]][n] = Line("attachment", 0, toot.idx, att.URL)

(***************************************************************************)
(* C11: extractMedia skips a media file whose copy fails and goes on; a    *)
(* path is copied at most once and later files with the path are no-ops.   *)
(***************************************************************************)
\* the files of the archive that the loop of extractMedia has gone through
FilesDone == {k \in 1..Len(zipFiles) : k < nextFile}
IsMediaFile(k) == HasPrefix(zipFiles[k].Name, MediaPrefix)
\* the steps run for file k
StepsOf(k) == {i \in 1..Len(ioLog) : ioLog[i].file = k}
\* file k was copied to mediaDir
CopiedFile(k) == \E i \in StepsOf(k) : ioLog[i].op = "copy" /\ ioLog[i].ok
\* the files before k with its path
EarlierWithPath(k) == {j \in 1..(k - 1) : zipFiles[j].Name = zipFiles[k].Name}

\* a failure skips that file only, and no path is copied twice
FailureSkipsOneFile ==
    /\ pc = "extracted" => FilesDone = 1..Len(zipFiles)
    /\ \A k \in FilesDone :
           (IsMediaFile(k) /\ zipFiles[k].fault = "none") =>
               /\ zipFiles[k].Name \in extractedMedia
               /\ LastSegment(zipFiles[k].Name) \in mediaDir
               /\ \E j \in EarlierWithPath(k) \cup {k} : CopiedFile(j)
    /\ \A k, j \in FilesDone :
           (CopiedFile(k) /\ CopiedFile(j) /\ zipFiles[k].Name = zipFiles[j].Name) => k = j
    /\ \A k \in FilesDone : ~IsMediaFile(k) => StepsOf(k) = {}

\* C11 as claimed: a file whose path an earlier file of the archive has is a
\* no-op, no step is run for it
C11_SeenPathIsNoOp ==
    /\ FailureSkipsOneFile
    /\ \A k \in FilesDone : EarlierWithPath(k) # {} => StepsOf(k) = {}

\* C11 as amended: a file whose path an earlier file was copied for is a
\* no-op; a media file whose path no earlier file was copied for is tried,
\* also when earlier files with the path failed
C11_ExtractedPathIsNoOp ==
    /\ FailureSkipsOneFile
    /\ \A k \in FilesDone :
           IsMediaFile(k) =>
               IF \E j \in EarlierWithPath(k) : CopiedFile(j)
               THEN StepsOf(k) = {}
               ELSE \E i \in StepsOf(k) : ioLog[i].op = "open"

\* a file failed, a later file with its path was copied and the one after
\* it was a no-op
C11_Witness_FailureThenCopyThenNoOp ==
    /\ pc = "extracted"
    /\ \E i, j, k \in 1..Len(zipFiles) :
          /\ i < j /\ j < k
          /\ zipFiles[i].Name = zipFiles[j].Name /\ zipFiles[j].Name = zipFiles[k].Name
          /\ zipFiles[i].fault # "none"
          /\ CopiedFile(j)
          /\ StepsOf(k) = {}

(***************************************************************************)
(* C12: an entry whose object does not parse as a Note is skipped, the     *)
(* other entries are still processed in order, and the skipped entry is    *)
(* counted in the statistics.                                              *)
(***************************************************************************)
\* the entries whose object does not unmarshal into a Note
Unparsable == {k \in 1..Len(archive) : ~archive[k].IsNote}
\* the entries that pass the three rules
PassesRules(k) ==
    archive[k].IsNote /\ ~IsEmpty(k) /\ ~IsPrivate(k) /\ ~TargetLacksActor(k)

\* every entry that parses is processed, before and after a skipped one, and
\* the kept ones are in allToots in the order of the archive
OthersProcessedInOrder ==
    /\ KeptIdx = {k \in 1..Len(archive) : PassesRules(k)}
    /\ \A i, j \in 1..Len(allToots) : i < j => allToots[i].idx < allToots[j].idx
    /\ stats.TootsOutput + stats.EmptyContent + stats.PrivateSkipped + stats.RepliesToOthers
           = Cardinality(NotesOf)

\* C12 as claimed: the skipped entries are among the items the statistics
\* count as processed
C12_SkippedEntryCounted ==
    Collected =>
        /\ OthersProcessedInOrder
        /\ stats.TotalProcessed = Len(archive)

\* C12 as amended: no counter counts a skipped entry; TotalProcessed is the
\* number of the entries that parse
C12_SkippedEntryNotCounted ==
    Collected =>
        /\ OthersProcessedInOrder
        /\ stats.TotalProcessed = Len(archive) - Cardinality(Unparsable)
        /\ stats.TotalProcessed =
               stats.TootsOutput + stats.EmptyContent + stats.PrivateSkipped
                   + stats.RepliesToOthers

\* an entry was skipped and a later entry was kept
C12_Witness_KeptAfterSkipped ==
    /\ Collected
    /\ \E k \in Unparsable : \E j \in KeptIdx : k < j

(***************************************************************************)
(* C13: for any order of the feed, the toots of a self-reply thread are    *)
(* written to the index.md of the bundle directory of the thread's root,   *)
(* the root first and every self-reply after it.                           *)
(***************************************************************************)
\* the entry the reply chain of the entry leads to, through at most n links
RECURSIVE ChainRoot(_, _)
ChainRoot(item, n) ==
    LET parent == ThreadIDChain(entries[item].Object.InReplyTo)
    IN  IF n = 0 \/ Len(entries[item].Object.InReplyTo) = 0 \/ parent = 0 THEN item
        ELSE ChainRoot(parent, n - 1)

RootOf(item) == ChainRoot(item, Len(entries))

\* the items of the toots of a file, in the order they were written
RECURSIVE TootsOf(_)
TootsOf(file) ==
    IF file = <<>> THEN <<>>
    ELSE (IF Head(file).kind = "toot" THEN <<Head(file).item>> ELSE <<>>)
         \o TootsOf(Tail(file))

\* the entries of the filtered outbox
FilteredItems == {OrderedItems[n] : n \in 1..Len(OrderedItems)}

\* C13, for the threads whose root is itself in the filtered outbox: when
\* renderTootsToDisk has returned nil, every toot of the thread is in the
\* index.md of its root's bundle directory and in no other, and that file
\* begins with the root's toot
C13_ThreadInRootFileRootFirst ==
    hpc = "done" =>
        \A item \in FilteredItems :
            RootOf(item) \in FilteredItems =>
                LET directory == BundleDirectory(entries[RootOf(item)])
                    toots == TootsOf(files[directory])
                IN  /\ \E n \in 1..Len(toots) : toots[n] = item
                    /\ \A b \in BundleDirectories \ {directory} :
                           \A n \in 1..Len(files[b]) : files[b][n].item # item
                    /\ toots[1] = RootOf(item)

(***************************************************************************)
(* C14: only tags of type Hashtag are written, to the "Tags:" line of      *)
(* writeToot and to the "tags:" of the frontmatter; a tag of another type  *)
(* is in neither.                                                          *)
(***************************************************************************)
\* the names, as written, of the record's tags that are no Hashtag
OtherTagNames ==
    {tagJSON[i].Name : i \in {j \in 1..Len(tagJSON) : tagJSON[j].Type # "Hashtag"}}
    \cup {StripHash(tagJSON[i].Name) :
              i \in {j \in 1..Len(tagJSON) : tagJSON[j].Type # "Hashtag"}}

C14_OnlyHashtagsWritten ==
    /\ "writeToot" \in tagDone =>
           \A i \in 1..Len(bodyTags) : bodyTags[i] \notin OtherTagNames
    /\ "frontmatter" \in tagDone =>
           \A i \in 1..Len(frontTags) : frontTags[i] \notin OtherTagNames

\* the "Tags:" line of writeToot holds the names of the Hashtag tags and
\* nothing else
WriteTootWritesHashtagsOnly ==
    "writeToot" \in tagDone =>
        /\ \A i \in 1..Len(bodyTags) : bodyTags[i] \notin OtherTagNames
        /\ Len(bodyTags) = Cardinality({j \in 1..Len(tagJSON) : tagJSON[j].Type = "Hashtag"})

(***************************************************************************)
(* C15: htmlToText elides a link whose class marks it as a hashtag, with   *)
(* its target and all the text in it, also when the class marks it as a    *)
(* mention too; the text before and after the link is kept.                *)
(***************************************************************************)
\* the tags of links whose class attribute holds "hashtag"
HashtagAnchors ==
    {a \in Anchors : \E i \in 1..Len(TagOf(a).attr) :
        TagOf(a).attr[i].Key = "class" /\ Contains(TagOf(a).attr[i].Val, HashtagWord)}

\* the positions of the content that are in a link marked as a hashtag, the
\* tags of the link included
InHashtagLink(s, i) ==
    \E a \in 1..i : /\ s[a] \in HashtagAnchors
                    /\ \A j \in a..(i - 1) : s[j] # "</a>"

\* the content without its hashtag links
WithoutHashtagLinks(s) ==
    LET keep == {i \in 1..Len(s) : ~InHashtagLink(s, i)}
    IN  [k \in 1..Cardinality(keep) |->
            s[CHOOSE i \in keep : Cardinality({j \in keep : j <= i}) = k]]

\* how often the character is in the string
CountOf(s, c) == Cardinality({i \in 1..Len(s) : s[i] = c})

\* the characters of the content that are text and in no link
TextOutsideLinks(s) ==
    {i \in 1..Len(s) : /\ s[i] \notin MarkupSyms
                       /\ \A a \in 1..i : s[a] \in Anchors =>
                                              \E j \in a..(i - 1) : s[j] = "</a>"}

\* the text is that of the content without its hashtag links; when the
\* hashtag links are the only links, nothing of a link is in the text (no
\* link text, no target, no bracket) and the text is the text around the
\* links
C15_HashtagLinksElided ==
    tpc # "content" =>
        /\ result = HtmlToText(WithoutHashtagLinks(htmlContent))
        /\ (\A i \in 1..Len(htmlContent) :
                htmlContent[i] \in Anchors => htmlContent[i] \in HashtagAnchors)
           /\ (\E i \in 1..Len(htmlContent) : htmlContent[i] \in HashtagAnchors)
           => /\ \A i \in 1..Len(result) : result[i] \in {"x", " ", "\n"}
              /\ CountOf(result, "x")
                     = Cardinality({i \in TextOutsideLinks(htmlContent) : htmlContent[i] = "x"})

\* a link marked as a mention and a hashtag, with text in nested elements,
\* between two texts, was elided and the two texts were kept
C15_Witness_MentionHashtagElided ==
    /\ tpc = "text"
    /\ htmlContent = <<"x", "<a href class=mention hashtag>", "#", "<span>", "<span>", "y",
                       "</span>", "</span>", "</a>", "x">>
    /\ result = <<"x", "x">>

(***************************************************************************)
(* C16: htmlToText returns a text without markup as it is, up to white     *)
(* space, and returns its own result unchanged, also for lines that begin  *)
(* with http:// or https://.                                               *)
(***************************************************************************)
\* a content of characters, none of them "<"
IsPlain(s) == \A i \in 1..Len(s) : s[i] \notin MarkupSyms /\ s[i] # "<"

\* the words of a string: its runs of characters that are no white space
RECURSIVE Words(_)
Words(s) ==
    LET t == TrimSpace(s)
        gaps == {i \in 1..Len(t) : t[i] \in Space}
        gap == CHOOSE i \in gaps : \A j \in gaps : i <= j
    IN  IF t = <<>> THEN <<>>
        ELSE IF gaps = {} THEN <<t>>
        ELSE <<SubSeq(t, 1, gap - 1)>> \o Words(SubSeq(t, gap + 1, Len(t)))

BeginsWithURL(line) ==
    HasPrefix(TrimSpace(line), HttpPrefix) \/ HasPrefix(TrimSpace(line), HttpsPrefix)

\* the lines of a string that begin with a URL, and the string without them
URLLines(s) == {k \in 1..Len(Split(s)) : BeginsWithURL(Split(s)[k])}

RECURSIVE OtherLines(_)
OtherLines(lines) ==
    IF lines = <<>> THEN <<>>
    ELSE (IF BeginsWithURL(Head(lines)) THEN <<>> ELSE Head(lines) \o <<"\n">>)
         \o OtherLines(Tail(lines))

\* the string without its angle brackets
WithoutBrackets(s) ==
    LET NoBracket(c) == c \notin {"<", ">"}
    IN  SelectSeq(s, NoBracket)

C17_WalkTerminates == <>(hpc \in {"done", "failed"})

(***************************************************************************)
(* C18: every record collectToots keeps and counts in TootsOutput is       *)
(* written by writeMarkdownFiles once, into one document; the toots        *)
(* written are TootsOutput many.                                           *)
(***************************************************************************)
\* the places the content of the record of archive position k is written at
ContentLinesOf(k) ==
    UNION {{<<d, n>> : n \in {m \in 1..Len(docs[d]) :
                                  docs[d][m].kind = "content" /\ docs[d][m].idx = k}} :
               d \in DateKeys}

\* the toots written to all the documents
TootsWritten ==
    UNION {{<<d, n>> : n \in {m \in 1..Len(docs[d]) : docs[d][m].kind = "content"}} :
               d \in DateKeys}

C18_KeptRecordWrittenOnce ==
    pc = "written" =>
        /\ \A k \in KeptIdx : Cardinality(ContentLinesOf(k)) = 1
        /\ Cardinality(TootsWritten) = stats.TootsOutput

=============================================================================
